---- MODULE Spec2Model ----
(***************************************************************************)
(* The message pipeline of evp-itc-archive:                                *)
(*   scripts/extract_from_rawemail_only.py  raw records -> canonical       *)
(*                                          corpus (out/messages.ndjson,   *)
(*                                          out/by_year/<year>.ndjson)     *)
(*   scripts/build_lunr_single.py           corpus -> site/docs.json       *)
(*   scripts/generate_browse_pages.py       docs.json + by_year -> threads *)
(*                                          and navigation links           *)
(* Text is a sequence of one-character strings.  A JSON value is a record  *)
(* tagged by its Python type.                                              *)
(***************************************************************************)
EXTENDS Integers, Sequences, FiniteSets, TLC

VARIABLES
    pc,                   \* which script / which step of it runs next
    input,                \* the dicts the build loop has taken so far
    seen, count, per_year,\* extract_from_rawemail_only.py globals
    out,                  \* lines of out/messages.ndjson
    by_year,              \* files of out/by_year: year -> lines
    docs_json,            \* site/docs.json
    ndjson_index,         \* generate_browse_pages.main: ndjson_index
    ordered_mids, mid_to_index, full_docs,
    threads, thread_keys, \* the dict threads and its insertion order
    items_sorted,         \* per thread key: items_sorted of the last sort
    prev_next_in_thread,
    rendered,             \* per doc of docs.json: the links its page was rendered with
    pages,                \* site/msg/<mid>.html: the links of the page last written
    html, stripped        \* strip_html called on its own: its argument and its result

vars == <<pc, input, seen, count, per_year, out, by_year, docs_json,
          ndjson_index, ordered_mids, mid_to_index, full_docs, threads,
          thread_keys, items_sorted, prev_next_in_thread, rendered, pages,
          html, stripped>>

buildVars == <<input, seen, count, per_year, out>>
browseVars == <<ndjson_index, ordered_mids, mid_to_index, full_docs, threads,
                thread_keys, items_sorted, prev_next_in_thread, rendered, pages>>
stripVars == <<html, stripped>>

(***************************************************************************)
(* Bounds of the model.                                                    *)
(***************************************************************************)
MaxRecords == 3 \* dicts fed to one corpus build
MaxDocs == 3    \* entries of a hand-made docs.json (SpecThread)
MaxPieces == 3  \* pieces of markup and text in a text handed to strip_html (SpecStrip)

(***************************************************************************)
(* JSON / Python values.                                                   *)
(***************************************************************************)
NONE == [t |-> "none"]
Str(s) == [t |-> "str", s |-> s]
Num(n) == [t |-> "int", n |-> n]
Bytes(s) == [t |-> "bytes", s |-> s]
List(l) == [t |-> "list", l |-> l]
\* the string dt.isoformat() + "Z" of a datetime dt = <<Y, M, D, h, m, s>>
IsoStr(dt) == [t |-> "iso", dt |-> dt]

\* the element of a singleton: The({F(x) : x \in {e}}) is F(e), with e named once
The(S) == CHOOSE x \in S : TRUE

\* dict.get(k)
Get(d, k) == IF k \in DOMAIN d THEN d[k] ELSE NONE

\* Python truth value
Truthy(v) ==
    CASE v.t = "none" -> FALSE
      [] v.t = "str" -> v.s # <<>>
      [] v.t = "bytes" -> v.s # <<>>
      [] v.t = "int" -> v.n # 0
      [] v.t = "list" -> v.l # <<>>
      [] OTHER -> TRUE

\* Python `a or b`
Or(a, b) == IF Truthy(a) THEN a ELSE b

IsStr(v) == v.t \in {"str", "iso"}

(***************************************************************************)
(* Text.                                                                   *)
(***************************************************************************)
Digit == <<"0", "1", "2", "3", "4", "5", "6", "7", "8", "9">>

DigitVal(c) == CHOOSE i \in 0..9 : Digit[i + 1] = c

IsDigit(c) == \E i \in 1..10 : Digit[i] = c

\* str.strip() strips these
Whitespace == {" ", "\t", "\n", "\r", "\f"}

RECURSIVE NatStr(_)
NatStr(n) == IF n < 10 THEN <<Digit[n + 1]>>
             ELSE NatStr(n \div 10) \o <<Digit[(n % 10) + 1]>>

IntStr(n) == IF n < 0 THEN <<"-">> \o NatStr(0 - n) ELSE NatStr(n)

RECURSIVE LStrip(_)
LStrip(s) == IF s # <<>> /\ Head(s) \in Whitespace THEN LStrip(Tail(s)) ELSE s

RECURSIVE RStrip(_)
RStrip(s) == IF s # <<>> /\ s[Len(s)] \in Whitespace
             THEN RStrip(SubSeq(s, 1, Len(s) - 1)) ELSE s

\* str.strip()
Strip(s) == RStrip(LStrip(s))

\* n in at least w digits
RECURSIVE Pad(_, _)
Pad(n, w) == IF Len(NatStr(n)) >= w THEN NatStr(n)
             ELSE <<"0">> \o (IF w > 1 THEN Pad(n, w - 1) ELSE <<>>)

\* datetime.isoformat() + "Z"
IsoText(dt) ==
    Pad(dt[1], 4) \o <<"-">> \o Pad(dt[2], 2) \o <<"-">> \o Pad(dt[3], 2) \o <<"T">>
    \o Pad(dt[4], 2) \o <<":">> \o Pad(dt[5], 2) \o <<":">> \o Pad(dt[6], 2) \o <<"Z">>

\* str(v)
PyStr(v) ==
    CASE v.t = "str" -> v.s
      [] v.t = "int" -> IntStr(v.n)
      [] v.t = "none" -> <<"N", "o", "n", "e">>
      [] v.t = "iso" -> IsoText(v.dt)
      [] OTHER -> <<"?">>

RECURSIVE DigitsVal(_)
DigitsVal(s) == IF s = <<>> THEN 0
                ELSE 10 * DigitsVal(SubSeq(s, 1, Len(s) - 1)) + DigitVal(s[Len(s)])

AllDigits(s) == s # <<>> /\ \A i \in 1..Len(s) : IsDigit(s[i])

\* int(v): <<ok, value>>; a str is stripped and may carry a sign
PyInt(v) ==
    CASE v.t = "int" -> <<TRUE, v.n>>
      [] v.t = "str" ->
            LET s == Strip(v.s)
                signed == s # <<>> /\ Head(s) \in {"-", "+"}
                body == IF signed THEN Tail(s) ELSE s
            IN  IF AllDigits(body)
                THEN <<TRUE, IF signed /\ Head(s) = "-"
                             THEN 0 - DigitsVal(body) ELSE DigitsVal(body)>>
                ELSE <<FALSE, 0>>
      [] OTHER -> <<FALSE, 0>>

(***************************************************************************)
(* extract_from_rawemail_only.py                                           *)
(***************************************************************************)
\* datetime.utcfromtimestamp(v) as <<Y, M, D, h, m, s>> (proleptic Gregorian)
UtcFromTimestamp(v) ==
    LET days == v \div 86400
        secs == v % 86400
        z == days + 719468
        era == z \div 146097
        doe == z - era * 146097
        yoe == (doe - doe \div 1460 + doe \div 36524 - doe \div 146096) \div 365
        doy == doe - (365 * yoe + yoe \div 4 - yoe \div 100)
        mp == (5 * doy + 2) \div 153
        d == doy - (153 * mp + 2) \div 5 + 1
        m == IF mp < 10 THEN mp + 3 ELSE mp - 9
        y == yoe + era * 400 + (IF m <= 2 THEN 1 ELSE 0)
    IN  <<y, m, d, secs \div 3600, (secs % 3600) \div 60, secs % 60>>

\* to_iso_and_year with the year of epoch 0 where the value does not parse
to_iso_and_year_YearDefault(ts) ==
    LET p == PyInt(ts)
    IN  IF p[1]
        THEN LET dt == UtcFromTimestamp(p[2]) IN <<IsoStr(dt), Num(dt[1])>>
        ELSE <<NONE, Num(1970)>>

\* to_iso_and_year(ts): <<timestamp, year>>
to_iso_and_year(ts) ==
    LET p == PyInt(ts)
    IN  IF p[1]
        THEN LET dt == UtcFromTimestamp(p[2]) IN <<IsoStr(dt), Num(dt[1])>>
        ELSE <<NONE, NONE>>

\* html.unescape on the entities of the model's alphabet (an entity is one symbol)
Unescape(s) ==
    [i \in 1..Len(s) |->
        CASE s[i] = "&lt;" -> "<"
          [] s[i] = "&gt;" -> ">"
          [] s[i] = "&amp;" -> "&"
          [] OTHER -> s[i]]

\* str.lower() on the letters the (?i) patterns of strip_html name
Lower(c) ==
    CASE c = "S" -> "s" [] c = "C" -> "c" [] c = "R" -> "r" [] c = "I" -> "i"
      [] c = "P" -> "p" [] c = "T" -> "t" [] c = "Y" -> "y" [] c = "L" -> "l"
      [] c = "E" -> "e" [] c = "B" -> "b" [] OTHER -> c

\* s[i:] starts with w (ci: ignoring case)
StartsAt(s, i, w, ci) ==
    /\ i >= 1
    /\ i + Len(w) - 1 <= Len(s)
    /\ \A k \in 1..Len(w) :
          (IF ci THEN Lower(s[i + k - 1]) ELSE s[i + k - 1]) = w[k]

\* the first index >= i of s holding a character of cs, or 0
RECURSIVE FindIn(_, _, _)
FindIn(s, i, cs) == IF i > Len(s) THEN 0
                    ELSE IF s[i] \in cs THEN i ELSE FindIn(s, i + 1, cs)

\* the first index >= i at which w starts, or 0
RECURSIVE FindSeq(_, _, _)
FindSeq(s, i, w) == IF i + Len(w) - 1 > Len(s) THEN 0
                    ELSE IF StartsAt(s, i, w, FALSE) THEN i ELSE FindSeq(s, i + 1, w)

\* the first index >= i of s not holding a character of cs (Len(s) + 1 at the end)
RECURSIVE SkipIn(_, _, _)
SkipIn(s, i, cs) == IF i <= Len(s) /\ s[i] \in cs THEN SkipIn(s, i + 1, cs) ELSE i

\* Each pattern of strip_html: the index after its match starting at i, or 0.
\* The source writes the patterns in raw strings with doubled backslashes, so
\* "\\1", "\\s" and "\\t" are a literal backslash followed by a plain character.

\* r"(?is)<(script|style)[^>]*>.*?</\\1>"
MatchScript(s, i) ==
    LET n == IF StartsAt(s, i + 1, <<"s", "c", "r", "i", "p", "t">>, TRUE) THEN 6
             ELSE IF StartsAt(s, i + 1, <<"s", "t", "y", "l", "e">>, TRUE) THEN 5
             ELSE 0
        gt == FindIn(s, i + 1 + n, {">"})
        close == FindSeq(s, gt + 1, <<"<", "/", "\\", "1", ">">>)
    IN  IF i <= Len(s) /\ s[i] = "<" /\ n > 0 /\ gt > 0 /\ close > 0
        THEN close + 5 ELSE 0

\* r"(?i)<\\s*br\\s*/?\\s*>"
MatchBr(s, i) ==
    LET a == SkipIn(s, i + 2, {"s", "S"})
        b == SkipIn(s, a + 3, {"s", "S"})
        c == IF b <= Len(s) /\ s[b] = "/" THEN b + 1 ELSE b
        e == SkipIn(s, c + 1, {"s", "S"})
    IN  IF /\ StartsAt(s, i, <<"<", "\\">>, FALSE)
           /\ StartsAt(s, a, <<"b", "r", "\\">>, TRUE)
           /\ StartsAt(s, c, <<"\\">>, FALSE)
           /\ StartsAt(s, e, <<">">>, FALSE)
        THEN e + 1 ELSE 0

\* r"(?i)</\\s*p\\s*>"
MatchEndP(s, i) ==
    LET a == SkipIn(s, i + 3, {"s", "S"})
        e == SkipIn(s, a + 2, {"s", "S"})
    IN  IF /\ StartsAt(s, i, <<"<", "/", "\\">>, FALSE)
           /\ StartsAt(s, a, <<"p", "\\">>, TRUE)
           /\ StartsAt(s, e, <<">">>, FALSE)
        THEN e + 1 ELSE 0

\* r"<[^>]+>"
MatchTag(s, i) ==
    LET gt == FindIn(s, i + 1, {">"})
    IN  IF i <= Len(s) /\ s[i] = "<" /\ gt > i + 1 THEN gt + 1 ELSE 0

\* r"[ \\t\\r\\f\\v]+": the class holds the space, the backslash and t, r, f, v
HorizontalClass == {" ", "\\", "t", "r", "f", "v"}

MatchHorizontal(s, i) ==
    LET e == SkipIn(s, i, HorizontalClass) IN IF e > i THEN e ELSE 0

\* r"\n\\s*\n\\s*\n+"
MatchBlankLines(s, i) ==
    LET a == SkipIn(s, i + 2, {"s"})
        b == SkipIn(s, a + 2, {"s"})
        e == SkipIn(s, b, {"\n"})
    IN  IF /\ StartsAt(s, i, <<"\n", "\\">>, FALSE)
           /\ StartsAt(s, a, <<"\n", "\\">>, FALSE)
           /\ e > b
        THEN e ELSE 0

\* re.sub(pattern, repl, s) from index i on: leftmost matches, not overlapping
RECURSIVE Sub(_, _, _, _)
Sub(Match(_, _), repl, s, i) ==
    IF i > Len(s) THEN <<>>
    ELSE LET e == Match(s, i)
         IN  IF e > 0 THEN repl \o Sub(Match, repl, s, e)
             ELSE <<s[i]>> \o Sub(Match, repl, s, i + 1)

\* strip_html(s)
strip_html(s) ==
    IF s = <<>> THEN <<>>
    ELSE LET s1 == Unescape(s)
             s2 == Sub(MatchScript, <<>>, s1, 1)
             s3 == Sub(MatchBr, <<"\n">>, s2, 1)
             s4 == Sub(MatchEndP, <<"\n">>, s3, 1)
             s5 == Sub(MatchTag, <<>>, s4, 1)
             s6 == Sub(MatchHorizontal, <<" ">>, s5, 1)
             s7 == Sub(MatchBlankLines, <<"\n", "\n">>, s6, 1)
         IN  Strip(s7)

\* A raw email: its text, with what BytesParser(policy=policy.default) makes of
\* it: is_multipart() and the parts walk() visits (the message itself when it
\* is not multipart), each with its content type and get_content().  A header
\* line is one symbol of the text.
Mime(src, multipart, parts) ==
    [t |-> "str", s |-> src, multipart |-> multipart, parts |-> parts]

Part(ctype, content) == [ctype |-> ctype, content |-> content]

\* raw.replace("\r\n", "\n")
RECURSIVE ReplaceCRLF(_)
ReplaceCRLF(s) ==
    IF s = <<>> THEN <<>>
    ELSE IF Len(s) >= 2 /\ s[1] = "\r" /\ s[2] = "\n"
         THEN <<"\n">> \o ReplaceCRLF(SubSeq(s, 3, Len(s)))
         ELSE <<Head(s)>> \o ReplaceCRLF(Tail(s))

\* "\n".join(l)
RECURSIVE JoinLines(_)
JoinLines(l) == IF l = <<>> THEN <<>>
                ELSE IF Len(l) = 1 THEN l[1].s
                ELSE l[1].s \o <<"\n">> \o JoinLines(Tail(l))

\* what one part adds to the list `parts` of email_to_text
Collected(p, multipart) ==
    IF p.ctype = "text/plain" THEN <<p.content>>
    ELSE IF p.ctype = "text/html" THEN <<Str(strip_html(p.content.s))>>
    ELSE IF multipart THEN <<>>
    ELSE <<p.content>>

\* the list `parts` of email_to_text
RECURSIVE CollectParts(_, _)
CollectParts(ps, multipart) ==
    IF ps = <<>> THEN <<>>
    ELSE Collected(Head(ps), multipart) \o CollectParts(Tail(ps), multipart)

\* email_to_text(raw): raised is an exception that leaves the function
email_to_text(raw) ==
    IF raw.t # "str"
    THEN [raised |-> TRUE, text |-> <<>>]   \* raw.encode, then raw.replace in the handler
    ELSE The({ IF \E i \in 1..Len(parts) : parts[i].t # "str"
               THEN [raised |-> TRUE, text |-> <<>>]   \* str.join of bytes
               ELSE The({ [raised |-> FALSE,
                           text |-> IF text # <<>> THEN text ELSE ReplaceCRLF(raw.s)]
                          : text \in {Strip(JoinLines(parts))} })
               : parts \in {SelectSeq(CollectParts(raw.parts, raw.multipart), Truthy)} })

\* full_text[:1000]
IndexLen == 1000

\* Take that stops one character early
Take_OneShort(s, n) == SubSeq(s, 1, IF Len(s) < n - 1 THEN Len(s) ELSE n - 1)

\* s[:n]
Take(s, n) == SubSeq(s, 1, IF Len(s) < n THEN Len(s) ELSE n)

\* line 96: d.get("msgId") or d.get("messageId") or d.get("id")
RecordMid(d) == Or(Or(Get(d, "msgId"), Get(d, "messageId")), Get(d, "id"))

\* line 98: mid is None or not raw
Skipped(d) == RecordMid(d).t = "none" \/ ~Truthy(Get(d, "rawEmail"))

\* IsNewMid with the test `mid in seen` made before `mid = str(mid)`:
\* an id that is no string is never found in seen
IsNewMid_Uncoerced(d, st) ==
    RecordMid(d).t # "str" \/ RecordMid(d).s \notin st.seen

\* lines 101-104: str(mid) is new to seen
IsNewMid(d, st) == PyStr(RecordMid(d)) \notin st.seen

\* lines 107-108
SubjectValue(d) == Or(Get(d, "subject"), Str(<<>>))

AuthorValue(d) ==
    Or(Or(Or(Or(Get(d, "authorName"), Get(d, "author")), Get(d, "yahooAlias")),
          Get(d, "from")), Str(<<>>))

\* DateValue with the aliases tried in the opposite order
DateValue_DateFirst(d) == Or(Or(Get(d, "date"), Get(d, "lastPosted")), Get(d, "postDate"))

\* line 110
DateValue(d) == Or(Or(Get(d, "postDate"), Get(d, "lastPosted")), Get(d, "date"))

\* an exception leaves the loop body (nothing in the loop catches one);
\* e is what email_to_text(raw) gave
Raises(d, e) ==
    \/ ~IsStr(SubjectValue(d))                  \* .strip() of a non-str
    \/ ~IsStr(AuthorValue(d))
    \/ e.raised

\* line 111
ThreadValue(d) ==
    Or(Or(Get(d, "topicFirstRecord"), Get(d, "topicId")), Str(PyStr(RecordMid(d))))

\* lines 107-125: the dict doc, full_text being email_to_text(raw)
BuildDoc(d, full_text) ==
    The({ [id |-> Str(PyStr(RecordMid(d))),
           thread_id |-> Str(PyStr(ThreadValue(d))),
           subject |-> Str(Strip(SubjectValue(d).s)),
           author |-> Str(Strip(AuthorValue(d).s)),
           timestamp |-> ty[1],
           year |-> ty[2],
           index_text |-> Str(Take(full_text, IndexLen)),
           full_text |-> Str(full_text)]
          : ty \in {to_iso_and_year(DateValue(d))} })

\* per_year.setdefault(year, []).append(line)
AppendYear(py, y, line) ==
    IF y \in DOMAIN py THEN [k \in DOMAIN py |-> IF k = y THEN Append(py[k], line) ELSE py[k]]
    ELSE py @@ (y :> <<line>>)

\* Emit without seen.add(mid)
Emit_NoSeen(st, d) ==
    The({ IF Raises(d, e)
          THEN [seen |-> st.seen, count |-> st.count,
                per_year |-> st.per_year, out |-> st.out, aborted |-> TRUE]
          ELSE The({ [seen |-> st.seen,
                      count |-> st.count + 1,
                      per_year |-> IF doc.year.t = "none" THEN st.per_year
                                   ELSE AppendYear(st.per_year, doc.year.n, doc),
                      out |-> Append(st.out, doc),
                      aborted |-> FALSE]
                     : doc \in {BuildDoc(d, e.text)} })
          : e \in {email_to_text(Get(d, "rawEmail"))} })

\* lines 104-130: the dict d is taken: its id joins seen, its doc is written
Emit(st, d) ==
    The({ IF Raises(d, e)
          THEN [seen |-> st.seen \cup {PyStr(RecordMid(d))}, count |-> st.count,
                per_year |-> st.per_year, out |-> st.out, aborted |-> TRUE]
          ELSE The({ [seen |-> st.seen \cup {PyStr(RecordMid(d))},
                      count |-> st.count + 1,
                      per_year |-> IF doc.year.t = "none" THEN st.per_year
                                   ELSE AppendYear(st.per_year, doc.year.n, doc),
                      out |-> Append(st.out, doc),
                      aborted |-> FALSE]
                     : doc \in {BuildDoc(d, e.text)} })
          : e \in {email_to_text(Get(d, "rawEmail"))} })

\* LoopBody with `count += 1` moved in front of the test `mid in seen`
LoopBody_CountsDuplicate(st, d) ==
    IF Skipped(d) THEN st
    ELSE IF ~IsNewMid(d, st)
    THEN [seen |-> st.seen, count |-> st.count + 1, per_year |-> st.per_year,
          out |-> st.out, aborted |-> st.aborted]
    ELSE Emit(st, d)

\* lines 93-130: one pass of the loop body over the dict d, from the globals st
LoopBody(st, d) ==
    IF Skipped(d) THEN st
    ELSE IF ~IsNewMid(d, st) THEN st
    ELSE Emit(st, d)

(***************************************************************************)
(* The inputs of the model.                                                *)
(***************************************************************************)
RawA ==
    Mime(<<"Subject: Hi", "\n", "\n", "a", "b">>, FALSE,
         <<Part("text/plain", Str(<<"a", "b">>))>>)

RawB ==
    Mime(<<"Subject: Hi", "\r", "\n", "\r", "\n", "c", "d", "\r", "\n">>, FALSE,
         <<Part("text/plain", Str(<<"c", "d", "\r", "\n">>))>>)

\* a body one character longer than index_text may be
LongBody ==
    [i \in 1..(IndexLen + 1) |->
        IF i = IndexLen THEN "b" ELSE IF i = IndexLen + 1 THEN "c" ELSE "a"]

RawLong ==
    Mime(<<"Subject: Hi", "\n", "\n">> \o LongBody, FALSE,
         <<Part("text/plain", Str(LongBody))>>)

RawHtml ==
    Mime(<<"Content-Type: text/html", "\n", "\n",
           "<", "b", ">", "a", "f", "t", "e", "r", "<", "/", "b", ">">>, FALSE,
         <<Part("text/html",
                Str(<<"<", "b", ">", "a", "f", "t", "e", "r", "<", "/", "b", ">">>))>>)

RawBinary ==
    Mime(<<"Content-Type: application/octet-stream", "\n", "\n", "a", "b">>, FALSE,
         <<Part("application/octet-stream", Bytes(<<"a", "b">>))>>)

RawEmpty ==
    Mime(<<"Subject: Hi", "\r", "\n", "\r", "\n">>, FALSE,
         <<Part("text/plain", Str(<<>>))>>)

RawMulti ==
    Mime(<<"Content-Type: multipart/alternative; boundary=X", "\n", "\n",
           "--X", "\n", "Content-Type: text/plain", "\n", "\n", "a", "b", "\n",
           "--X", "\n", "Content-Type: text/html", "\n", "\n",
           "<", "b", ">", "c", "d", "<", "/", "b", ">", "\n", "--X--", "\n">>, TRUE,
         <<Part("multipart/alternative", NONE),
           Part("text/plain", Str(<<"a", "b">>)),
           Part("text/html", Str(<<"<", "b", ">", "c", "d", "<", "/", "b", ">">>))>>)

Epoch2001 == <<"1", "0", "0", "0", "0", "0", "0", "0", "0", "0">>

Epoch2002 == <<"1", "0", "2", "0", "0", "0", "0", "0", "0", "0">>

\* The dicts walk(data) may yield: every way the loop body can go.
Records ==
    { \* id "1", year 2001, its own thread
      [msgId |-> Str(<<"1">>), rawEmail |-> RawA, subject |-> Str(<<" ", "s", " ">>),
       authorName |-> Str(<<"x">>), postDate |-> Str(Epoch2001),
       date |-> Str(Epoch2002)],
      \* the same id as a number, everything else different
      [msgId |-> Num(1), rawEmail |-> RawB, subject |-> Str(<<"t">>),
       author |-> Str(<<"y">>), lastPosted |-> Num(1020000000), topicId |-> Num(9)],
      \* the same id without a rawEmail
      [messageId |-> Str(<<"1">>), subject |-> Str(<<"s">>)],
      \* an id that differs from "1" only by its angle brackets
      [msgId |-> Str(<<>>), id |-> Str(<<"<", "1", ">">>), rawEmail |-> RawHtml,
       from |-> Str(<<"z">>), postDate |-> Str(<<>>), date |-> Str(Epoch2001),
       topicFirstRecord |-> Str(<<"1">>)],
      \* no date: null timestamp and year
      [msgId |-> Str(<<"2">>), rawEmail |-> RawA, topicId |-> Str(<<"9">>)],
      \* a body longer than index_text
      [msgId |-> Str(<<"3">>), rawEmail |-> RawLong, topicId |-> Str(<<"9">>),
       postDate |-> Str(Epoch2002)],
      [msgId |-> Str(<<"4">>), rawEmail |-> RawMulti, yahooAlias |-> Str(<<"y">>),
       topicFirstRecord |-> Str(<<"2">>), postDate |-> Str(Epoch2001)],
      \* every id field empty
      [msgId |-> Str(<<>>), id |-> Str(<<>>), rawEmail |-> RawA,
       postDate |-> Str(<<"b", "a", "d">>), lastPosted |-> Num(1020000000)],
      \* no id field
      [rawEmail |-> RawA, subject |-> Str(<<"s">>)],
      \* an empty rawEmail
      [msgId |-> Str(<<"2">>), rawEmail |-> Str(<<>>)],
      \* a subject that is no string
      [msgId |-> Str(<<"5">>), rawEmail |-> RawA, subject |-> Num(5)],
      \* a body that is no text
      [msgId |-> Str(<<"5">>), rawEmail |-> RawBinary],
      \* a body with no text: the raw source stands in
      [id |-> Str(<<"3">>), rawEmail |-> RawEmpty, topicId |-> Str(<<"3">>),
       postDate |-> Str(<<" ", "9", "9", "9", "9", "9", "9", "9", "9", "9">>)] }

(***************************************************************************)
(* extract_from_rawemail_only.py: the run                                  *)
(***************************************************************************)
Globals == [seen |-> seen, count |-> count, per_year |-> per_year, out |-> out,
            aborted |-> FALSE]

\* lines 93-130: the loop takes the next dict
ProcessRecord(d) ==
    /\ pc = "build"
    /\ Len(input) < MaxRecords
    /\ \E st \in {LoopBody(Globals, d)} :
           /\ seen' = st.seen
           /\ count' = st.count
           /\ per_year' = st.per_year
           /\ out' = st.out
           /\ pc' = IF st.aborted THEN "build_aborted" ELSE "build"
    /\ input' = Append(input, d)
    /\ UNCHANGED <<by_year, docs_json>>
    /\ UNCHANGED browseVars
    /\ UNCHANGED stripVars

\* lines 132-136: the input is exhausted, the year files are written
WriteYearFiles ==
    /\ pc = "build"
    /\ by_year' = per_year
    /\ pc' = "built"
    /\ UNCHANGED <<docs_json>>
    /\ UNCHANGED buildVars
    /\ UNCHANGED stripVars
    /\ UNCHANGED browseVars

(***************************************************************************)
(* build_lunr_single.py                                                    *)
(***************************************************************************)
\* lines 26-32: the entry of docs.json for a row of messages.ndjson
DocsEntry(d) ==
    [id |-> d.id, subject |-> d.subject, author |-> d.author,
     timestamp |-> d.timestamp, year |-> d.year]

\* lines 6-36
BuildDocsJson ==
    /\ pc = "built"
    /\ docs_json' = [i \in 1..Len(out) |-> DocsEntry(out[i])]
    /\ pc' = "indexed"
    /\ UNCHANGED <<by_year>>
    /\ UNCHANGED buildVars
    /\ UNCHANGED stripVars
    /\ UNCHANGED browseVars

(***************************************************************************)
(* generate_browse_pages.py: helpers                                       *)
(***************************************************************************)
\* lines 106-109, 185-188, 195-198: strip, then drop one enclosing <...>
NormText(s0) ==
    The({ IF Len(s) >= 1 /\ s[1] = "<" /\ s[Len(s)] = ">"
          THEN Strip(SubSeq(s, 2, Len(s) - 1)) ELSE s
          : s \in {Strip(s0)} })

\* _norm_id(v), _norm_msgid(v)
_norm_msgid(v) == IF v.t = "none" THEN NONE ELSE Str(NormText(PyStr(v)))

\* the digits of abs(hash((a, b))) of two texts: a text that equal pairs alone share
HashOf(a, b) == <<"#">> \o a \o <<"#">> \o b

\* the first of the keys ks whose value in doc is truthy, or NONE
RECURSIVE FirstTruthy(_, _)
FirstTruthy(doc, ks) ==
    IF ks = <<>> THEN NONE
    ELSE IF Truthy(Get(doc, Head(ks))) THEN Get(doc, Head(ks))
    ELSE FirstTruthy(doc, Tail(ks))

IdKeys == <<"id", "_id", "message-id", "message_id", "msgid", "mid">>

\* dict.get(k, "")
GetOrEmpty(d, k) == IF k \in DOMAIN d THEN d[k] ELSE Str(<<>>)

\* compute_mid(doc)
compute_mid(doc) ==
    IF FirstTruthy(doc, IdKeys).t # "none"
    THEN NormText(PyStr(FirstTruthy(doc, IdKeys)))
    ELSE <<"m", "s", "g", "-">>
         \o HashOf(PyStr(GetOrEmpty(doc, "subject")), PyStr(GetOrEmpty(doc, "date")))

\* re.findall(r"<[^>]+>|[^,\s]+", s) from index i on
RECURSIVE RefTokens(_, _)
RefTokens(s, i) ==
    IF i > Len(s) THEN <<>>
    ELSE IF MatchTag(s, i) > 0
    THEN <<Str(SubSeq(s, i, MatchTag(s, i) - 1))>> \o RefTokens(s, MatchTag(s, i))
    ELSE IF s[i] \notin Whitespace \cup {","}
    THEN The({ <<Str(SubSeq(s, i, e - 1))>> \o RefTokens(s, e)
               : e \in {The({IF f = 0 THEN Len(s) + 1 ELSE f
                             : f \in {FindIn(s, i, Whitespace \cup {","})}})} })
    ELSE RefTokens(s, i + 1)

\* line 208: [_norm_msgid(x) for x in items if x and _norm_msgid(x)]
RECURSIVE NormItems(_)
NormItems(items) ==
    IF items = <<>> THEN <<>>
    ELSE (IF Truthy(Head(items)) /\ Truthy(_norm_msgid(Head(items)))
          THEN <<_norm_msgid(Head(items))>> ELSE <<>>)
         \o NormItems(Tail(items))

\* _split_references(refs)
_split_references(refs) ==
    IF ~Truthy(refs) THEN <<>>
    ELSE IF refs.t = "list" THEN NormItems(refs.l)
    ELSE NormItems(RefTokens(PyStr(refs), 1))

\* a value, or None when it is falsy: `v or None`
OrNone(v) == IF Truthy(v) THEN v ELSE NONE

\* ThreadKeyFromHeaders with in-reply-to consulted before references
ThreadKeyFromHeaders_ReplyFirst(doc) ==
    IF Truthy(FirstTruthy(doc, <<"in-reply-to", "in_reply_to", "In-Reply-To">>))
    THEN OrNone(_norm_msgid(FirstTruthy(doc, <<"in-reply-to", "in_reply_to",
                                               "In-Reply-To">>)))
    ELSE IF /\ Truthy(Or(Get(doc, "references"), Get(doc, "References")))
            /\ _split_references(Or(Get(doc, "references"), Get(doc, "References"))) # <<>>
    THEN _split_references(Or(Get(doc, "references"), Get(doc, "References")))[1]
    ELSE OrNone(_norm_msgid(Or(Or(Or(Get(doc, "message-id"), Get(doc, "message_id")),
                                  Get(doc, "msgid")), Get(doc, "id"))))

\* _thread_key_from_doc(doc): lines 279-290, when no explicit thread-id is set
ThreadKeyFromHeaders(doc) ==
    IF /\ Truthy(Or(Get(doc, "references"), Get(doc, "References")))
       /\ _split_references(Or(Get(doc, "references"), Get(doc, "References"))) # <<>>
    THEN _split_references(Or(Get(doc, "references"), Get(doc, "References")))[1]
    ELSE IF Truthy(FirstTruthy(doc, <<"in-reply-to", "in_reply_to", "In-Reply-To">>))
    THEN OrNone(_norm_msgid(FirstTruthy(doc, <<"in-reply-to", "in_reply_to",
                                               "In-Reply-To">>)))
    ELSE OrNone(_norm_msgid(Or(Or(Or(Get(doc, "message-id"), Get(doc, "message_id")),
                                  Get(doc, "msgid")), Get(doc, "id"))))

\* _thread_key_from_doc(doc)
_thread_key_from_doc(doc) ==
    IF Truthy(FirstTruthy(doc, <<"thread-id", "thread_id", "thread">>))
    THEN Str(PyStr(FirstTruthy(doc, <<"thread-id", "thread_id", "thread">>)))
    ELSE ThreadKeyFromHeaders(doc)

\* load_out_index, lines 237-257: the keys one line of a year file is indexed by
IdKeysOf(v) ==
    (IF Truthy(_norm_msgid(v)) THEN {_norm_msgid(v).s} ELSE {})
    \cup (IF v.t # "none" /\ PyStr(v) # <<>> THEN {PyStr(v)} ELSE {})
    \cup (IF PyInt(v)[1] THEN {IntStr(PyInt(v)[2])} ELSE {})

\* lines 259-263
HashKeyOf(obj) ==
    IF Truthy(GetOrEmpty(obj, "subject"))
       \/ Truthy(Or(GetOrEmpty(obj, "date"), GetOrEmpty(obj, "datetime")))
    THEN {<<"h", "a", "s", "h", ":">>
          \o HashOf(PyStr(GetOrEmpty(obj, "subject")),
                    PyStr(Or(GetOrEmpty(obj, "date"), GetOrEmpty(obj, "datetime"))))}
    ELSE {}

IndexKeysOf(obj) ==
    UNION {IdKeysOf(Get(obj, IdKeys[i])) : i \in 1..Len(IdKeys)} \cup HashKeyOf(obj)

\* index[k] = obj for every key of the line obj
IndexLine(index, obj) ==
    The({ [k \in DOMAIN index \cup ks |-> IF k \in ks THEN obj ELSE index[k]]
          : ks \in {IndexKeysOf(obj)} })

(***************************************************************************)
(* generate_browse_pages.py: main                                          *)
(***************************************************************************)
RECURSIVE IndexLines(_, _)
IndexLines(index, lines) ==
    IF lines = <<>> THEN index
    ELSE IndexLines(IndexLine(index, Head(lines)), Tail(lines))

RECURSIVE IndexFiles(_, _, _)
IndexFiles(index, files, order) ==
    IF order = <<>> THEN index
    ELSE IndexFiles(IndexLines(index, files[Head(order)]), files, Tail(order))

\* load_out_index(), given the year files and the order os.listdir names them in
load_out_index(files, order) == IndexFiles(<<>>, files, order)

\* the orders os.listdir may give the names S in
Orders(S) ==
    {o \in [1..Cardinality(S) -> S] :
        \A i, j \in 1..Cardinality(S) : i # j => o[i] # o[j]}

\* lines 453-456
LoadIndex ==
    /\ pc = "indexed"
    /\ \E order \in Orders(DOMAIN by_year) :
           ndjson_index' = load_out_index(by_year, order)
    /\ pc' = "loaded"
    /\ UNCHANGED <<by_year, docs_json>>
    /\ UNCHANGED buildVars
    /\ UNCHANGED stripVars
    /\ UNCHANGED <<ordered_mids, mid_to_index, full_docs, threads, thread_keys,
                   items_sorted, prev_next_in_thread, rendered, pages>>

\* line 460: {m: i for i, m in enumerate(ordered_mids)} (indices from 1 here)
MidToIndex(mids) ==
    [m \in {mids[i] : i \in 1..Len(mids)} |->
        CHOOSE i \in 1..Len(mids) :
            mids[i] = m /\ \A j \in 1..Len(mids) : mids[j] = m => j <= i]

\* line 469: the keys a doc is looked up by
LookupKeys(d) ==
    <<Str(compute_mid(d)), _norm_msgid(Get(d, "message-id")),
      _norm_msgid(Get(d, "_id")), Str(PyStr(Get(d, "id")))>>

\* lines 468-474: <<nd>>, or <<>> when no key finds an entry
RECURSIVE Lookup(_, _)
Lookup(index, ks) ==
    IF ks = <<>> THEN <<>>
    ELSE IF Truthy(Head(ks)) /\ Head(ks).s \in DOMAIN index
    THEN <<index[Head(ks).s]>>
    ELSE Lookup(index, Tail(ks))

\* rd.update(nd)
Update(rd, nd) ==
    [k \in DOMAIN rd \cup DOMAIN nd |-> IF k \in DOMAIN nd THEN nd[k] ELSE rd[k]]

\* lines 465-477: the pair (mid, rd) of a doc
FullDoc(index, d) ==
    The({ [mid |-> compute_mid(d),
           rd |-> IF nd = <<>> THEN d ELSE Update(d, nd[1])]
          : nd \in {Lookup(index, LookupKeys(d))} })

\* lines 459-477
BuildFullDocs ==
    /\ pc = "loaded"
    /\ ordered_mids' = [i \in 1..Len(docs_json) |-> compute_mid(docs_json[i])]
    /\ mid_to_index' = MidToIndex(ordered_mids')
    /\ full_docs' = [i \in 1..Len(docs_json) |-> FullDoc(ndjson_index, docs_json[i])]
    /\ pc' = "full"
    /\ UNCHANGED <<by_year, docs_json, ndjson_index>>
    /\ UNCHANGED buildVars
    /\ UNCHANGED stripVars
    /\ UNCHANGED <<threads, thread_keys, items_sorted, prev_next_in_thread, rendered,
                   pages>>

\* line 482: _thread_key_from_doc(rd) or mid
TKey(item) ==
    The({ IF Truthy(k) THEN k.s ELSE item.mid : k \in {_thread_key_from_doc(item.rd)} })

\* lines 481-483, from the i-th pair on: g holds the dict (map) and its key order.
\* A thread is the list of the positions its pairs have in full_docs.
RECURSIVE GroupFrom(_, _, _)
GroupFrom(g, fd, i) ==
    IF i > Len(fd) THEN g
    ELSE GroupFrom(
           The({ IF k \in DOMAIN g.map
                 THEN [map |-> [x \in DOMAIN g.map |->
                                   IF x = k THEN Append(g.map[x], i) ELSE g.map[x]],
                       keys |-> g.keys]
                 ELSE [map |-> g.map @@ (k :> <<i>>), keys |-> Append(g.keys, k)]
                 : k \in {TKey(fd[i])} }),
           fd, i + 1)

\* lines 480-483
GroupThreads ==
    /\ pc = "full"
    /\ \E g \in {GroupFrom([map |-> <<>>, keys |-> <<>>], full_docs, 1)} :
           /\ threads' = g.map
           /\ thread_keys' = g.keys
    /\ pc' = "grouped"
    /\ UNCHANGED <<by_year, docs_json, ndjson_index, ordered_mids, mid_to_index,
                   full_docs, items_sorted, prev_next_in_thread, rendered, pages>>
    /\ UNCHANGED buildVars
    /\ UNCHANGED stripVars

\* the code points of the characters, in increasing order
CodeOrder ==
    <<"\t", "\n", "\f", "\r", " ", "#", "&", "+", ",", "-", "/",
      "0", "1", "2", "3", "4", "5", "6", "7", "8", "9", ":", "<", ">", "?",
      "N", "T", "Z", "\\", "a", "b", "c", "d", "e", "f", "g", "h", "i", "j", "k",
      "l", "m", "n", "o", "p", "q", "r", "s", "t", "u", "v", "w", "x", "y", "z">>

Code(c) == CHOOSE i \in 1..Len(CodeOrder) : CodeOrder[i] = c

\* a < b for two sequences of numbers, as Python orders tuples and strings
RECURSIVE SeqLess(_, _)
SeqLess(a, b) ==
    IF b = <<>> THEN FALSE
    ELSE IF a = <<>> THEN TRUE
    ELSE IF Head(a) # Head(b) THEN Head(a) < Head(b)
    ELSE SeqLess(Tail(a), Tail(b))

DateKeys == <<"date", "datetime", "timestamp", "sent", "created", "time">>

\* datetime.fromisoformat(str(v).replace("Z", "+00:00")) succeeds: v is a string
\* isoformat() wrote (no other string of the model is in ISO format)
ParsesAsIso(v) == v.t = "iso"

\* _date_sort_key(item): a datetime (its fields), or a str (its code points)
_date_sort_key(rdoc) ==
    The({ IF ~Truthy(v) THEN [k |-> "str", n |-> <<>>]
          ELSE IF ParsesAsIso(v) THEN [k |-> "datetime", n |-> v.dt]
          ELSE [k |-> "str", n |-> [i \in 1..Len(PyStr(v)) |-> Code(PyStr(v)[i])]]
          : v \in {FirstTruthy(rdoc, DateKeys)} })

\* sorted() compares a str with a datetime: TypeError
SortRaises(fd, items) ==
    \E i, j \in 1..Len(items) :
        _date_sort_key(fd[items[i]].rd).k # _date_sort_key(fd[items[j]].rd).k

\* InsertSorted with x put in front of the elements that are equal to it
RECURSIVE InsertSorted_BeforeEqual(_, _, _)
InsertSorted_BeforeEqual(fd, l, x) ==
    IF l = <<>> THEN <<x>>
    ELSE IF ~SeqLess(_date_sort_key(fd[Head(l)].rd).n, _date_sort_key(fd[x].rd).n)
    THEN <<x>> \o l
    ELSE <<Head(l)>> \o InsertSorted_BeforeEqual(fd, Tail(l), x)

\* x put into the sorted list l behind every element that is not greater
RECURSIVE InsertSorted(_, _, _)
InsertSorted(fd, l, x) ==
    IF l = <<>> THEN <<x>>
    ELSE IF SeqLess(_date_sort_key(fd[x].rd).n, _date_sort_key(fd[Head(l)].rd).n)
    THEN <<x>> \o l
    ELSE <<Head(l)>> \o InsertSorted(fd, Tail(l), x)

\* sorted(items, key=_date_sort_key): stable
RECURSIVE SortedItems(_, _)
SortedItems(fd, items) ==
    IF items = <<>> THEN <<>>
    ELSE InsertSorted(fd, SortedItems(fd, SubSeq(items, 1, Len(items) - 1)),
                      items[Len(items)])

\* lines 501-504 for one sorted thread: prev_next_in_thread[mid] = (prev, next)
RECURSIVE LinkThread(_, _, _, _)
LinkThread(pnt, fd, sorted, i) ==
    IF i > Len(sorted) THEN pnt
    ELSE LinkThread(
           The({ [m \in DOMAIN pnt \cup {fd[sorted[i]].mid} |->
                    IF m = fd[sorted[i]].mid THEN link ELSE pnt[m]]
                 : link \in {<<IF i > 1 THEN Str(fd[sorted[i - 1]].mid) ELSE NONE,
                               IF i < Len(sorted) THEN Str(fd[sorted[i + 1]].mid)
                               ELSE NONE>>} }),
           fd, sorted, i + 1)

\* lines 497-507 from the i-th thread on; r.raised: sorted() raised
RECURSIVE SortFrom(_, _, _, _, _)
SortFrom(r, fd, map, keys, i) ==
    IF i > Len(keys) \/ r.raised THEN r
    ELSE SortFrom(
           IF SortRaises(fd, map[keys[i]])
           THEN [pnt |-> r.pnt, sorted |-> r.sorted, raised |-> TRUE]
           ELSE The({ [pnt |-> LinkThread(r.pnt, fd, srt, 1),
                       sorted |-> r.sorted @@ (keys[i] :> srt),
                       raised |-> FALSE]
                      : srt \in {SortedItems(fd, map[keys[i]])} }),
           fd, map, keys, i + 1)

\* lines 497-507
SortThreads ==
    /\ pc = "grouped"
    /\ \E r \in {SortFrom([pnt |-> <<>>, sorted |-> <<>>, raised |-> FALSE],
                          full_docs, threads, thread_keys, 1)} :
           /\ prev_next_in_thread' = r.pnt
           /\ items_sorted' = r.sorted
           /\ pc' = IF r.raised THEN "browse_aborted"
                    ELSE IF docs_json = <<>> THEN "done" ELSE "render"
    /\ UNCHANGED <<by_year, docs_json, ndjson_index, ordered_mids, mid_to_index,
                   full_docs, threads, thread_keys, rendered, pages>>
    /\ UNCHANGED buildVars
    /\ UNCHANGED stripVars

\* render_message_html, lines 398-407: a link is written `if prev_mid:`
Link(v) == IF Truthy(v) THEN v ELSE NONE

\* lines 551-561: the links the page of the doc at position i is rendered with
LinksOf(i) ==
    The({ [prev_chrono |-> IF idx > 1 THEN Link(Str(ordered_mids[idx - 1])) ELSE NONE,
           next_chrono |-> IF idx < Len(ordered_mids)
                           THEN Link(Str(ordered_mids[idx + 1])) ELSE NONE,
           prev_in_thread |-> IF ordered_mids[i] \in DOMAIN prev_next_in_thread
                              THEN Link(prev_next_in_thread[ordered_mids[i]][1])
                              ELSE NONE,
           next_in_thread |-> IF ordered_mids[i] \in DOMAIN prev_next_in_thread
                              THEN Link(prev_next_in_thread[ordered_mids[i]][2])
                              ELSE NONE]
          : idx \in {mid_to_index[ordered_mids[i]]} })

\* lines 512-576: one pass of the loop that writes site/msg/<mid>.html
RenderMessage ==
    /\ pc = "render"
    /\ \E i \in {Len(rendered) + 1} :
           /\ rendered' = Append(rendered, LinksOf(i))
           /\ pages' = [m \in DOMAIN pages \cup {ordered_mids[i]} |->
                           IF m = ordered_mids[i] THEN LinksOf(i) ELSE pages[m]]
           /\ pc' = IF i = Len(docs_json) THEN "done" ELSE "render"
    /\ UNCHANGED <<by_year, docs_json, ndjson_index, ordered_mids, mid_to_index,
                   full_docs, threads, thread_keys, items_sorted,
                   prev_next_in_thread>>
    /\ UNCHANGED buildVars
    /\ UNCHANGED stripVars

Init ==
    /\ pc = "build"
    /\ input = <<>>
    /\ seen = {}
    /\ count = 0
    /\ per_year = <<>>
    /\ out = <<>>
    /\ by_year = <<>>
    /\ docs_json = <<>>
    /\ ndjson_index = <<>>
    /\ ordered_mids = <<>>
    /\ mid_to_index = <<>>
    /\ full_docs = <<>>
    /\ threads = <<>>
    /\ thread_keys = <<>>
    /\ items_sorted = <<>>
    /\ prev_next_in_thread = <<>>
    /\ rendered = <<>>
    /\ pages = <<>>
    /\ html = <<>>
    /\ stripped = <<>>

Next ==
    \/ \E d \in Records : ProcessRecord(d)
    \/ WriteYearFiles
    \/ BuildDocsJson
    \/ LoadIndex
    \/ BuildFullDocs
    \/ GroupThreads
    \/ SortThreads
    \/ RenderMessage

Spec == Init /\ [][Next]_vars

(***************************************************************************)
(* generate_browse_pages.py run on a docs.json whose entries carry thread  *)
(* fields and headers (no year files).                                     *)
(***************************************************************************)
T2001 == to_iso_and_year(Str(Epoch2001))[1]

T2002 == to_iso_and_year(Str(Epoch2002))[1]

T2003 == to_iso_and_year(Num(1050000000))[1]

ThreadDocs ==
    { \* a root, a reply to it, a reply to the reply
      [id |-> Str(<<"a">>), subject |-> Str(<<"s">>), timestamp |-> T2001],
      [id |-> Str(<<"b">>), timestamp |-> T2002]
         @@ ("in-reply-to" :> Str(<<"<", "a", ">">>)),
      [id |-> Str(<<"c">>), timestamp |-> T2003]
         @@ ("in-reply-to" :> Str(<<"<", "b", ">">>)),
      \* every source of a thread key at once
      [id |-> Str(<<"d">>), thread_id |-> Str(<<"a">>), timestamp |-> T2001,
       references |-> Str(<<"<", "b", ">", " ", "<", "c", ">">>)]
         @@ ("in-reply-to" :> Str(<<"<", "c", ">">>)),
      [id |-> Str(<<"e">>), timestamp |-> T2002,
       references |-> Str(<<"<", "c", ">", ",", "a">>)]
         @@ ("in-reply-to" :> Str(<<"<", "a", ">">>)),
      \* references as a list whose first entry is empty
      [id |-> Str(<<"f">>), timestamp |-> T2001,
       references |-> List(<<Str(<<>>), Str(<<"<", "b", ">">>)>>)],
      \* a Message-ID header beside the id
      [id |-> Str(<<"g">>), timestamp |-> T2003]
         @@ ("message-id" :> Str(<<"<", "m", ">">>)),
      \* an in-reply-to that names nothing, no timestamp
      [id |-> Str(<<"h">>), timestamp |-> NONE]
         @@ ("message-id" :> Str(<<"<", "m", ">">>))
         @@ ("in-reply-to" :> Str(<<"<", ">">>)),
      \* empty thread field, references without an entry, bracketed id
      [id |-> Str(<<"<", "a", ">">>), thread_id |-> Str(<<>>),
       references |-> Str(<<",">>), timestamp |-> T2003],
      \* no id at all
      [subject |-> Str(<<"s">>), date |-> Str(<<"x">>), thread |-> Num(0)],
      \* a numeric thread field, a timestamp that is no ISO string
      [id |-> Str(<<"b">>), timestamp |-> Str(<<"b", "a", "d">>)]
         @@ ("thread-id" :> Num(7)) }

InitThread ==
    /\ pc = "indexed"
    /\ input = <<>>
    /\ seen = {}
    /\ count = 0
    /\ per_year = <<>>
    /\ out = <<>>
    /\ by_year = <<>>
    /\ \E n \in 1..MaxDocs : docs_json \in [1..n -> ThreadDocs]
    /\ ndjson_index = <<>>
    /\ ordered_mids = <<>>
    /\ mid_to_index = <<>>
    /\ full_docs = <<>>
    /\ threads = <<>>
    /\ thread_keys = <<>>
    /\ items_sorted = <<>>
    /\ prev_next_in_thread = <<>>
    /\ rendered = <<>>
    /\ pages = <<>>
    /\ html = <<>>
    /\ stripped = <<>>

NextThread ==
    \/ LoadIndex
    \/ BuildFullDocs
    \/ GroupThreads
    \/ SortThreads
    \/ RenderMessage

SpecThread == InitThread /\ [][NextThread]_vars

(***************************************************************************)
(* strip_html called on its own, on the texts made of a few pieces of      *)
(* markup and text.                                                        *)
(***************************************************************************)
HtmlPieces ==
    { <<"<", "s", "c", "r", "i", "p", "t", ">">>,
      <<"<", "/", "s", "c", "r", "i", "p", "t", ">">>,
      <<"<", "S", "T", "Y", "L", "E", ">">>,
      <<"<", "/", "s", "t", "y", "l", "e", ">">>,
      <<"<", "/", "\\", "1", ">">>,
      <<"<", "b", "r", ">">>,
      <<"<", "\\", "b", "r", "\\", "\\", ">">>,
      <<"<", "/", "p", ">">>,
      <<"<", "b", ">">>,
      <<"a">>,
      <<"t">>,
      <<" ">>,
      <<"\t">>,
      <<"\n">> }

\* the pieces of l one after the other
RECURSIVE Concat(_)
Concat(l) == IF l = <<>> THEN <<>> ELSE Head(l) \o Concat(Tail(l))

InitStrip ==
    /\ pc = "strip"
    /\ \E n \in 0..MaxPieces : \E l \in [1..n -> HtmlPieces] : html = Concat(l)
    /\ stripped = <<>>
    /\ input = <<>>
    /\ seen = {}
    /\ count = 0
    /\ per_year = <<>>
    /\ out = <<>>
    /\ by_year = <<>>
    /\ docs_json = <<>>
    /\ ndjson_index = <<>>
    /\ ordered_mids = <<>>
    /\ mid_to_index = <<>>
    /\ full_docs = <<>>
    /\ threads = <<>>
    /\ thread_keys = <<>>
    /\ items_sorted = <<>>
    /\ prev_next_in_thread = <<>>
    /\ rendered = <<>>
    /\ pages = <<>>

\* lines 20-29: one call strip_html(html)
StripHtml ==
    /\ pc = "strip"
    /\ stripped' = strip_html(html)
    /\ pc' = "stripped"
    /\ UNCHANGED <<html, by_year, docs_json>>
    /\ UNCHANGED buildVars
    /\ UNCHANGED browseVars

NextStrip == StripHtml

SpecStrip == InitStrip /\ [][NextStrip]_vars

(***************************************************************************)
(* Properties of the corpus build.                                         *)
(***************************************************************************)
\* the identifier of a record that has one, as the build compares it
StrId(d) == PyStr(RecordMid(d))

HasId(d) == RecordMid(d).t # "none"

HasRaw(d) == Truthy(Get(d, "rawEmail"))

\* the place of the first record of the input with the identifier id and a
\* non-empty rawEmail (0 when there is none)
FirstWith(id) ==
    IF \E i \in 1..Len(input) : HasId(input[i]) /\ HasRaw(input[i]) /\ StrId(input[i]) = id
    THEN CHOOSE i \in 1..Len(input) :
           /\ HasId(input[i]) /\ HasRaw(input[i]) /\ StrId(input[i]) = id
           /\ \A j \in 1..(i - 1) :
                ~(HasId(input[j]) /\ HasRaw(input[j]) /\ StrId(input[j]) = id)
    ELSE 0

\* C1: after the build has processed any sequence of raw records, no two
\* CanonicalMessages written to the full corpus have the same id.
C1_UniqueIds ==
    \A i, j \in 1..Len(out) : out[i].id = out[j].id => i = j

\* two records with one identifier (once a string, once a number) and a
\* non-empty rawEmail were processed, and two messages are in the corpus
C1_Witness ==
    /\ Len(out) >= 2
    /\ \E i, j \in 1..Len(input) :
         /\ i < j
         /\ HasId(input[i]) /\ HasRaw(input[i]) /\ HasId(input[j]) /\ HasRaw(input[j])
         /\ StrId(input[i]) = StrId(input[j])
         /\ RecordMid(input[i]) # RecordMid(input[j])

\* every message of the corpus carries the subject, author, timestamp and
\* text of the first record with its identifier and a non-empty rawEmail
C2_EmittedIsFirst ==
    \A k \in 1..Len(out) :
        /\ FirstWith(out[k].id.s) # 0
        /\ \E d \in {input[FirstWith(out[k].id.s)]} :
             /\ out[k].subject = Str(Strip(SubjectValue(d).s))
             /\ out[k].author = Str(Strip(AuthorValue(d).s))
             /\ out[k].timestamp = to_iso_and_year(DateValue(d))[1]
             /\ out[k].full_text = Str(email_to_text(Get(d, "rawEmail")).text)

\* the step takes a record whose identifier an earlier record with a
\* non-empty rawEmail carried, itself with a non-empty rawEmail
C2_TakesDuplicate ==
    /\ pc = "build"
    /\ Len(input') = Len(input) + 1
    /\ \E d \in {input'[Len(input')]} :
         /\ HasId(d) /\ HasRaw(d)
         /\ FirstWith(StrId(d)) # 0

\* C2: of two raw records with the same identifier and a non-empty rawEmail
\* each, only the first-encountered one is emitted: the emitted message has
\* the first record's subject, author, timestamp and text, and processing
\* the later record changes neither the full corpus, nor any year
\* partition, nor the message count.
C2_FirstWins ==
    /\ []C2_EmittedIsFirst
    /\ [][C2_TakesDuplicate => UNCHANGED <<out, per_year, count>>]_vars

\* a message is in the corpus, and a later record with its identifier, a
\* non-empty rawEmail and another subject and text has been processed
C2_Witness ==
    \E k \in 1..Len(out) : \E j \in 1..Len(input) :
        /\ FirstWith(out[k].id.s) \in 1..(j - 1)
        /\ HasId(input[j]) /\ HasRaw(input[j]) /\ StrId(input[j]) = out[k].id.s
        /\ Get(input[j], "subject") # Get(input[FirstWith(out[k].id.s)], "subject")
        /\ Get(input[j], "rawEmail") # Get(input[FirstWith(out[k].id.s)], "rawEmail")

\* the build run from the globals st over the records recs
RECURSIVE RunFrom(_, _)
RunFrom(st, recs) ==
    IF recs = <<>> \/ st.aborted THEN st
    ELSE RunFrom(LoopBody(st, Head(recs)), Tail(recs))

FreshGlobals == [seen |-> {}, count |-> 0, per_year |-> <<>>, out |-> <<>>,
                 aborted |-> FALSE]

\* recs without every record whose identifier occurred in an earlier record
RECURSIVE DedupAny(_)
DedupAny(recs) ==
    IF recs = <<>> THEN <<>>
    ELSE The({ IF HasId(d) /\ \E i \in 1..(Len(recs) - 1) :
                                HasId(recs[i]) /\ StrId(recs[i]) = StrId(d)
               THEN DedupAny(SubSeq(recs, 1, Len(recs) - 1))
               ELSE Append(DedupAny(SubSeq(recs, 1, Len(recs) - 1)), d)
               : d \in {recs[Len(recs)]} })

\* recs without every record whose identifier occurred in an earlier record
\* that had a non-empty rawEmail
RECURSIVE DedupEmitted(_)
DedupEmitted(recs) ==
    IF recs = <<>> THEN <<>>
    ELSE The({ IF HasId(d) /\ \E i \in 1..(Len(recs) - 1) :
                    HasId(recs[i]) /\ HasRaw(recs[i]) /\ StrId(recs[i]) = StrId(d)
               THEN DedupEmitted(SubSeq(recs, 1, Len(recs) - 1))
               ELSE Append(DedupEmitted(SubSeq(recs, 1, Len(recs) - 1)), d)
               : d \in {recs[Len(recs)]} })

\* C3 as stated: the message count of the build equals the message count of
\* the build run on the input without every record whose identifier
\* already occurred in an earlier record.
C3_CountOfDeduplicated ==
    count = RunFrom(FreshGlobals, DedupAny(input)).count

\* C3, amended: the message count of the build equals the message count of
\* the build run on the input without every record whose identifier
\* already occurred in an earlier record that had a non-empty rawEmail.
C3_CountOfDeduplicatedEmitted ==
    count = RunFrom(FreshGlobals, DedupEmitted(input)).count

\* the input holds a record that the amended removal drops and one that it
\* keeps although an earlier record without rawEmail had its identifier, and
\* messages were counted
C3_Witness ==
    /\ count >= 1
    /\ Len(DedupEmitted(input)) < Len(input)
    /\ Len(DedupAny(input)) < Len(DedupEmitted(input))

\* record d raises while its fields are resolved or its body is read
RaisesOn(d) ==
    /\ ~Skipped(d)
    /\ Raises(d, email_to_text(Get(d, "rawEmail")))

\* C4: a record that raises while it is parsed or assembled is rejected
\* (nothing is written or counted for it) and the build goes on to the
\* later records: the run is never aborted by a single bad record.
C4_RejectAndContinue ==
    [][(pc = "build" /\ Len(input') = Len(input) + 1 /\ RaisesOn(input'[Len(input')])
        /\ StrId(input'[Len(input')]) \notin seen)
       => (pc' = "build" /\ UNCHANGED <<out, per_year, count>>)]_vars

\* the first non-empty value among msgId, messageId and id, or NONE
FirstNonEmptyId(d) ==
    IF Truthy(Get(d, "msgId")) THEN Get(d, "msgId")
    ELSE IF Truthy(Get(d, "messageId")) THEN Get(d, "messageId")
    ELSE IF Truthy(Get(d, "id")) THEN Get(d, "id")
    ELSE NONE

\* C10: the id of an emitted CanonicalMessage is the first present,
\* non-empty value among the record's msgId, messageId and id coerced to
\* string; so every emitted id is a non-empty string.
C10_IdIsFirstNonEmpty ==
    \A k \in 1..Len(out) :
        /\ out[k].id.s # <<>>
        /\ \E i \in 1..Len(input) :
             /\ FirstNonEmptyId(input[i]) # NONE
             /\ out[k].id = Str(PyStr(FirstNonEmptyId(input[i])))

(***************************************************************************)
(* Properties of threads and navigation links.                             *)
(***************************************************************************)
\* the doc at place i of docs.json is in the thread with key k
InGroup(k, i) ==
    /\ k \in DOMAIN threads
    /\ \E n \in 1..Len(threads[k]) : threads[k][n] = i

Grouped == pc \in {"grouped", "render", "done", "browse_aborted"}

\* C5: navigation links are symmetric for every pair of messages A, B of
\* the rendered corpus: next_chrono(A) = B iff prev_chrono(B) = A, and
\* next_in_thread(A) = B iff prev_in_thread(B) = A.
C5_LinksSymmetric ==
    pc = "done" =>
        \A i, j \in 1..Len(rendered) :
            /\ (rendered[i].next_chrono = Str(ordered_mids[j]))
                 <=> (rendered[j].prev_chrono = Str(ordered_mids[i]))
            /\ (rendered[i].next_in_thread = Str(ordered_mids[j]))
                 <=> (rendered[j].prev_in_thread = Str(ordered_mids[i]))

ExplicitThread(d) == FirstTruthy(d, <<"thread-id", "thread_id", "thread">>)

ReferencesOf(d) == _split_references(Or(Get(d, "references"), Get(d, "References")))

ReplyTo(d) == FirstTruthy(d, <<"in-reply-to", "in_reply_to", "In-Reply-To">>)

\* the in-reply-to of d names the message e
Names(d, e) ==
    /\ Truthy(ReplyTo(d))
    /\ _norm_msgid(ReplyTo(d)) = Str(compute_mid(e))

\* neither an explicit thread field nor a references header
OnlyReplyHeader(d) ==
    /\ ~Truthy(ExplicitThread(d))
    /\ ~Truthy(Or(Get(d, "references"), Get(d, "References")))

\* the docs at a, b, c: b replies to a, c replies to b, timestamps increase
ReplyChain(a, b, c) ==
    /\ a # b /\ b # c /\ a # c
    /\ \A i \in {a, b, c} :
         /\ OnlyReplyHeader(docs_json[i])
         /\ Get(docs_json[i], "timestamp").t = "iso"
    /\ ~Truthy(ReplyTo(docs_json[a]))
    /\ Names(docs_json[b], docs_json[a])
    /\ Names(docs_json[c], docs_json[b])
    /\ SeqLess(docs_json[a].timestamp.dt, docs_json[b].timestamp.dt)
    /\ SeqLess(docs_json[b].timestamp.dt, docs_json[c].timestamp.dt)

\* C6: messages A, B, C where B's in-reply-to names A and C's names B (none
\* with an explicit thread field or references) all get the thread key A's
\* id, and are in one ThreadGroup ordered A, B, C when their timestamps
\* increase in that order.
C6_ReplyChainOneThread ==
    \A a, b, c \in 1..Len(docs_json) :
        ReplyChain(a, b, c) =>
            /\ Grouped => \A i \in {a, b, c} : InGroup(compute_mid(docs_json[a]), i)
            /\ pc \in {"render", "done"} =>
                 /\ compute_mid(docs_json[a]) \in DOMAIN items_sorted
                 /\ \E x, y, z \in 1..Len(items_sorted[compute_mid(docs_json[a])]) :
                      /\ x < y /\ y < z
                      /\ items_sorted[compute_mid(docs_json[a])][x] = a
                      /\ items_sorted[compute_mid(docs_json[a])][y] = b
                      /\ items_sorted[compute_mid(docs_json[a])][z] = c

\* a link: absent, or the id of a message of the corpus
IsLink(v) == v = NONE \/ \E i \in 1..Len(ordered_mids) : v = Str(ordered_mids[i])

\* C7: for every corpus, thread grouping, sorting and linking complete and
\* give every message a 4-tuple (prev_chrono, next_chrono, prev_in_thread,
\* next_in_thread), each a message id or absent, also when a thread holds
\* messages whose timestamp parses beside messages whose timestamp is
\* missing or unparseable.
C7_LinkingCompletes ==
    /\ pc # "browse_aborted"
    /\ pc = "done" =>
         /\ Len(rendered) = Len(docs_json)
         /\ \A i \in 1..Len(rendered) :
              /\ IsLink(rendered[i].prev_chrono) /\ IsLink(rendered[i].next_chrono)
              /\ IsLink(rendered[i].prev_in_thread)
              /\ IsLink(rendered[i].next_in_thread)

\* C8: any two CanonicalMessages with the same thread_id in the corpus are
\* put in the same ThreadGroup, whatever their year (null included).
C8_SameThreadIdSameGroup ==
    Grouped =>
        \A i, j \in 1..Len(out) :
            out[i].thread_id = out[j].thread_id =>
                \E k \in DOMAIN threads : InGroup(k, i) /\ InGroup(k, j)

\* the normalized text of v, or the id of d when that text is empty
NormOrOwn(v, d) ==
    IF Truthy(_norm_msgid(v)) THEN _norm_msgid(v).s ELSE compute_mid(d)

\* the thread key by the cascade: explicit thread field, first reference,
\* in-reply-to, own id (a source is absent when it has no non-empty value)
KeyAsStated(d) ==
    IF Truthy(ExplicitThread(d)) THEN PyStr(ExplicitThread(d))
    ELSE IF ReferencesOf(d) # <<>> THEN ReferencesOf(d)[1].s
    ELSE IF Truthy(ReplyTo(d)) /\ Truthy(_norm_msgid(ReplyTo(d)))
    THEN _norm_msgid(ReplyTo(d)).s
    ELSE compute_mid(d)

\* the same with, in the last place, the message-id, message_id, msgid or id
\* field, and the id of the message when the value chosen in the last two
\* places is empty once normalized
KeyAmended(d) ==
    IF Truthy(ExplicitThread(d)) THEN PyStr(ExplicitThread(d))
    ELSE IF ReferencesOf(d) # <<>> THEN ReferencesOf(d)[1].s
    ELSE IF Truthy(ReplyTo(d)) THEN NormOrOwn(ReplyTo(d), d)
    ELSE NormOrOwn(Or(Or(Or(Get(d, "message-id"), Get(d, "message_id")),
                         Get(d, "msgid")), Get(d, "id")), d)

\* C9 as stated: the thread key of a message is the first present of (1) an
\* explicit thread identifier field, (2) the first normalized entry of its
\* references header, (3) its normalized in-reply-to value, (4) its own id.
C9_CascadeAsStated ==
    Grouped => \A i \in 1..Len(full_docs) : InGroup(KeyAsStated(full_docs[i].rd), i)

\* C9, amended: (4) is the normalized value of the first non-empty of the
\* message-id, message_id, msgid and id fields; when the in-reply-to or
\* that value is empty once normalized, the key is the message's own id.
C9_CascadeAmended ==
    Grouped => \A i \in 1..Len(full_docs) : InGroup(KeyAmended(full_docs[i].rd), i)

\* grouped: a message whose references and in-reply-to name different
\* messages, and a message whose Message-ID header differs from its id
C9_Witness ==
    /\ pc = "grouped"
    /\ \E i, j \in 1..Len(full_docs) :
         /\ ReferencesOf(full_docs[i].rd) # <<>>
         /\ Truthy(ReplyTo(full_docs[i].rd))
         /\ _norm_msgid(ReplyTo(full_docs[i].rd)) # ReferencesOf(full_docs[i].rd)[1]
         /\ ~Truthy(ExplicitThread(full_docs[i].rd))
         /\ KeyAmended(full_docs[j].rd) # KeyAsStated(full_docs[j].rd)

(***************************************************************************)
(* Properties of the fields of a CanonicalMessage.                         *)
(***************************************************************************)
\* the record the k-th message of the corpus was made from
RecordOf(k) == input[FirstWith(out[k].id.s)]

\* the corpus build runs or has ended: no later script writes to the corpus
Building == pc \in {"build", "build_aborted", "built"}

Present(d, k) == Get(d, k) # NONE

\* the first present value among postDate, lastPosted, date
FirstPresentDate(d) ==
    IF Present(d, "postDate") THEN d.postDate
    ELSE IF Present(d, "lastPosted") THEN d.lastPosted
    ELSE Get(d, "date")

\* the first of postDate and lastPosted that is neither empty nor zero, date
\* when neither is
FirstNonEmptyDate(d) ==
    IF Truthy(Get(d, "postDate")) THEN d.postDate
    ELSE IF Truthy(Get(d, "lastPosted")) THEN d.lastPosted
    ELSE Get(d, "date")

\* the timestamp and year a value gives when read as a Unix epoch integer
EpochOf(v) ==
    IF PyInt(v)[1]
    THEN <<IsoStr(UtcFromTimestamp(PyInt(v)[2])), Num(UtcFromTimestamp(PyInt(v)[2])[1])>>
    ELSE <<NONE, NONE>>

Occurrences(l, x) == Cardinality({i \in 1..Len(l) : l[i] = x})

RECURSIVE SumOfLens(_, _)
SumOfLens(parts, ys) ==
    IF ys = {} THEN 0
    ELSE The({ Len(parts[y]) + SumOfLens(parts, ys \ {y}) : y \in {CHOOSE z \in ys : TRUE} })

\* the year partitions parts hold each message of the corpus under its year
\* once and nowhere else, and nothing but messages of the corpus
PartitionOf(parts) ==
    /\ \A k \in 1..Len(out) : \A y \in DOMAIN parts :
         Occurrences(parts[y], out[k]) = (IF out[k].year = Num(y) THEN 1 ELSE 0)
    /\ \A k \in 1..Len(out) :
         out[k].year # NONE => out[k].year.n \in DOMAIN parts
    /\ Len(out) = SumOfLens(parts, DOMAIN parts)
                  + Cardinality({k \in 1..Len(out) : out[k].year = NONE})

\* C12: when the build has ended, every emitted CanonicalMessage appears
\* exactly once in the full corpus, once in the year partition of its year
\* and in no other, a message with null year in no partition; so the corpus
\* count is the sum of the partition sizes plus the null-year messages.
C12_Partitioned ==
    pc # "build" =>
        /\ \A k \in 1..Len(out) : Occurrences(out, out[k]) = 1
        /\ PartitionOf(by_year)

(***************************************************************************)
(* Properties of the rendered pages.                                       *)
(***************************************************************************)
\* the id the pages know the i-th message of the corpus by
PageId(i) == compute_mid(docs_json[i])

\* no two messages of the corpus share a page id
DistinctPageIds ==
    \A i, j \in 1..Len(docs_json) : PageId(i) = PageId(j) => i = j

\* C13: prev_chrono and next_chrono of every message are the ids of the
\* messages immediately before and after it in the emission order of the
\* corpus; the first message has no prev_chrono, the last no next_chrono,
\* and timestamps never change this order.
C13_ChronoIsEmissionOrder ==
    pc = "done" =>
        /\ Len(rendered) = Len(out)
        /\ \A i \in 1..Len(rendered) :
             /\ rendered[i].prev_chrono = (IF i > 1 THEN Str(PageId(i - 1)) ELSE NONE)
             /\ rendered[i].next_chrono
                  = (IF i < Len(out) THEN Str(PageId(i + 1)) ELSE NONE)

\* the key of the thread that holds the doc at place i
GroupOf(i) == CHOOSE k \in DOMAIN threads : InGroup(k, i)

\* the place of i in the sorted thread l
PlaceIn(l, i) == CHOOSE n \in 1..Len(l) : l[n] = i

\* the doc at place i has, in the sorted thread l, the in-thread links
\* prev and next, each absent or its neighbour in l
NeighboursIn(l, i, prev, next) ==
    /\ prev # NONE => /\ PlaceIn(l, i) > 1
                      /\ prev = Str(PageId(l[PlaceIn(l, i) - 1]))
    /\ next # NONE => /\ PlaceIn(l, i) < Len(l)
                      /\ next = Str(PageId(l[PlaceIn(l, i) + 1]))

\* C14: prev_in_thread and next_in_thread of every message, when present,
\* are ids of messages of its own ThreadGroup, and its immediate neighbours
\* in the sorted order of that group.
C14_ThreadLinksAreNeighbours ==
    pc = "done" =>
        \A i \in 1..Len(rendered) :
            NeighboursIn(items_sorted[GroupOf(i)], i,
                         rendered[i].prev_in_thread, rendered[i].next_in_thread)

\* the resolved timestamp of the doc at place i
ResolvedTime(i) == FirstTruthy(full_docs[i].rd, DateKeys)

\* the doc at place i does not come after the doc at place j by resolved
\* timestamp: by time when both parse, by the text of the value otherwise
NotAfter(i, j) ==
    IF ResolvedTime(i).t = "iso" /\ ResolvedTime(j).t = "iso"
    THEN ~SeqLess(ResolvedTime(j).dt, ResolvedTime(i).dt)
    ELSE ~SeqLess(_date_sort_key(full_docs[j].rd).n, _date_sort_key(full_docs[i].rd).n)

\* l holds the members of the thread with key k up to their order
SameMembers(l, k) ==
    /\ Len(l) = Len(threads[k])
    /\ \A n \in 1..Len(l) : InGroup(k, l[n])
    /\ \A n, m \in 1..Len(l) : l[n] = l[m] => n = m

HorizontalWhitespace == {" ", "\t", "\r", "\f"}

\* the first index >= i at which w starts in any case, or 0
RECURSIVE FindClose(_, _, _)
FindClose(s, i, w) == IF i + Len(w) - 1 > Len(s) THEN 0
                      ELSE IF StartsAt(s, i, w, TRUE) THEN i ELSE FindClose(s, i + 1, w)

\* <script ...> ... </script> and <style ...> ... </style>
StatedScript(s, i) ==
    LET name == IF StartsAt(s, i + 1, <<"s", "c", "r", "i", "p", "t">>, TRUE)
                THEN <<"s", "c", "r", "i", "p", "t">>
                ELSE IF StartsAt(s, i + 1, <<"s", "t", "y", "l", "e">>, TRUE)
                THEN <<"s", "t", "y", "l", "e">>
                ELSE <<>>
        gt == FindIn(s, i + 1 + Len(name), {">"})
        close == FindClose(s, gt + 1, <<"<", "/">> \o name \o <<">">>)
    IN  IF i <= Len(s) /\ s[i] = "<" /\ name # <<>> /\ gt > 0 /\ close > 0
        THEN close + Len(name) + 3 ELSE 0

\* <br>, <br/>, < br / >
StatedBr(s, i) ==
    LET a == SkipIn(s, i + 1, Whitespace)
        b == SkipIn(s, a + 2, Whitespace)
        c == IF b <= Len(s) /\ s[b] = "/" THEN b + 1 ELSE b
        e == SkipIn(s, c, Whitespace)
    IN  IF /\ StartsAt(s, i, <<"<">>, FALSE)
           /\ StartsAt(s, a, <<"b", "r">>, TRUE)
           /\ StartsAt(s, e, <<">">>, FALSE)
        THEN e + 1 ELSE 0

\* </p>, </ p >
StatedEndP(s, i) ==
    LET a == SkipIn(s, i + 2, Whitespace)
        e == SkipIn(s, a + 1, Whitespace)
    IN  IF /\ StartsAt(s, i, <<"<", "/">>, FALSE)
           /\ StartsAt(s, a, <<"p">>, TRUE)
           /\ StartsAt(s, e, <<">">>, FALSE)
        THEN e + 1 ELSE 0

\* a run of horizontal whitespace
StatedHorizontal(s, i) ==
    LET e == SkipIn(s, i, HorizontalWhitespace) IN IF e > i THEN e ELSE 0

\* the stated steps on s, followed by the last two steps of strip_html
\* (blank lines, strip) as the code takes them
StrippedAsStated(s) ==
    IF s = <<>> THEN <<>>
    ELSE LET s1 == Unescape(s)
             s2 == Sub(StatedScript, <<>>, s1, 1)
             s3 == Sub(StatedBr, <<"\n">>, s2, 1)
             s4 == Sub(StatedEndP, <<"\n">>, s3, 1)
             s5 == Sub(MatchTag, <<>>, s4, 1)
             s6 == Sub(StatedHorizontal, <<" ">>, s5, 1)
             s7 == Sub(MatchBlankLines, <<"\n", "\n">>, s6, 1)
         IN  Strip(s7)

\* C16: HTML stripping removes every <script> and <style> block with the
\* text between its tags, turns <br> and </p> into newlines, removes all
\* remaining tags, and collapses each run of horizontal whitespace to one
\* space, leaving every other character of the text outside tags unchanged.
C16_StripsAsStated ==
    pc = "stripped" => stripped = StrippedAsStated(html)

\* the leap days of the years before y
LeapsBefore(y) == (y - 1) \div 4 - (y - 1) \div 100 + (y - 1) \div 400

\* the Unix time at which the UTC calendar year y begins
YearStart(y) == (365 * (y - 1970) + LeapsBefore(y) - LeapsBefore(1970)) * 86400

\* the year the text of an ISO-8601 timestamp begins with
YearInText(ts) == DigitsVal(SubSeq(IsoText(ts.dt), 1, 4))

\* C17: in every emitted message timestamp and year are both null or both
\* set, and when set year is the UTC calendar year of timestamp: the year
\* the timestamp's text begins with, and the year the epoch of the record
\* falls in (epoch 1000000000 gives 2001-09-09T01:46:40Z, year 2001); of every
\* message of the corpus, at every point of the build.
C17_TimestampAndYearTogether ==
    Building =>
        \A k \in 1..Len(out) :
            /\ (out[k].timestamp = NONE) <=> (out[k].year = NONE)
            /\ out[k].timestamp # NONE =>
                 /\ out[k].timestamp.t = "iso"
                 /\ out[k].year.t = "int"
                 /\ out[k].year.n = YearInText(out[k].timestamp)
                 /\ \E e \in {PyInt(FirstNonEmptyDate(RecordOf(k)))[2]} :
                      /\ YearStart(out[k].year.n) <= e
                      /\ e < YearStart(out[k].year.n + 1)
                      /\ e = 1000000000 =>
                           /\ out[k].year.n = 2001
                           /\ IsoText(out[k].timestamp.dt)
                                = <<"2", "0", "0", "1", "-", "0", "9", "-", "0", "9", "T",
                                    "0", "1", ":", "4", "6", ":", "4", "0", "Z">>

\* the corpus holds a message of epoch 1000000000 with year 2001 and a
\* message whose date did not parse, with neither field set
C17_Witness ==
    /\ \E k \in 1..Len(out) :
         /\ PyInt(FirstNonEmptyDate(RecordOf(k))) = <<TRUE, 1000000000>>
         /\ out[k].year = Num(2001)
    /\ \E k \in 1..Len(out) :
         /\ Truthy(FirstNonEmptyDate(RecordOf(k)))
         /\ out[k].timestamp = NONE
         /\ out[k].year = NONE

\* C18: in every emitted message index_text is exactly the first 1000
\* characters of full_text, all of full_text when it is shorter; of every
\* message of the corpus, at every point of the build.
C18_IndexTextIsPrefix ==
    Building =>
        \A k \in 1..Len(out) :
            /\ Len(out[k].index_text.s)
                 = (IF Len(out[k].full_text.s) < IndexLen
                    THEN Len(out[k].full_text.s) ELSE IndexLen)
            /\ out[k].index_text.s
                 = SubSeq(out[k].full_text.s, 1, Len(out[k].index_text.s))

\* the corpus holds a message whose full_text is longer than 1000
\* characters, cut after the 1000th, and a shorter one kept whole
C18_Witness ==
    /\ \E k \in 1..Len(out) :
         /\ Len(out[k].full_text.s) > IndexLen
         /\ Len(out[k].index_text.s) = IndexLen
         /\ out[k].index_text.s[IndexLen] = "b"
    /\ \E k \in 1..Len(out) :
         /\ out[k].full_text.s # <<>>
         /\ Len(out[k].full_text.s) < IndexLen
         /\ out[k].index_text = out[k].full_text

\* the step takes a record with no identifier (no present, non-empty value
\* among msgId, messageId, id) or with no non-empty rawEmail
C19_TakesUnusable ==
    /\ pc = "build"
    /\ Len(input') = Len(input) + 1
    /\ \E d \in {input'[Len(input')]} : FirstNonEmptyId(d) = NONE \/ ~HasRaw(d)

\* while the build runs, every record taken so far that has an identifier
\* and a non-empty rawEmail has a message with its identifier in the corpus,
\* whatever records without a rawEmail came before it
C19_UsableIsEmitted ==
    pc = "build" =>
        \A j \in 1..Len(input) :
            (FirstNonEmptyId(input[j]) # NONE /\ HasRaw(input[j])) =>
                \E k \in 1..Len(out) : out[k].id = Str(PyStr(FirstNonEmptyId(input[j])))

\* C19: a record that has no identifier or no non-empty rawEmail is skipped
\* with the seen set, the message count, the full corpus and the year
\* partitions all unchanged; a record with an identifier but no rawEmail
\* does not mark the identifier as seen, so a later record with the same
\* identifier and a rawEmail is still emitted.
C19_SkipLeavesNoTrace ==
    /\ [][C19_TakesUnusable => UNCHANGED <<seen, count, out, per_year, by_year>>]_vars
    /\ []C19_UsableIsEmitted

\* C20: the page id computed by compute_mid is injective on the corpus: two
\* messages with different ids get different page ids, so each position of
\* the emission order maps back to its own index and no message's page is
\* overwritten by another message's.
C20_PageIdInjective ==
    /\ \A i, j \in 1..Len(docs_json) :
         docs_json[i].id # docs_json[j].id => PageId(i) # PageId(j)
    /\ \A i \in 1..Len(ordered_mids) : mid_to_index[ordered_mids[i]] = i
    /\ pc = "done" => Cardinality(DOMAIN pages) = Len(docs_json)

====
